---- MODULE Spec2Model ----
(***************************************************************************)
(* Rule grammar (rule_parser.py), generator strategies (generators.py) and *)
(* the per-column generation engine (data_generator.py) of the test data   *)
(* generator.                                                              *)
(*                                                                         *)
(* A Python str is a sequence of one-character strings; a dict is the      *)
(* sequence of its [k, v] items in insertion order; a generated value is a *)
(* record [t, i, s]: t its Python type, i its number, s its characters.    *)
(***************************************************************************)
EXTENDS Integers, Sequences, FiniteSets, TLC

VARIABLES
    rule,        \* parse_rule's argument: [tag, s], tag "str", "None" or "float"
    params,      \* the dict parse_rule returned
    is_valid,    \* validate_rule's first result
    error_msg,   \* validate_rule's second result
    reparsed,    \* parse_rule of the re-serialised params
    pc,          \* position of the caller
    columns,     \* TestDataGenerator.columns
    rules,       \* TestDataGenerator.rules
    n_rows,      \* TestDataGenerator.n_rows
    i,           \* index of the column generate() is at
    frame,       \* local variables of the strategy being run
    data_dict,   \* generate()'s data_dict
    returned,    \* what each generate_column_data call returned, in call order
    draws,       \* number of values drawn so far from the module random
    seed,        \* the seed of the module random; <<>> when it is not seeded
    run,         \* 1: the run over the template, 2: the run without column skip
    skip,        \* column left out of the second run, 0 for none
    first        \* returned of the first run

vars == <<rule, params, is_valid, error_msg, reparsed, pc, columns, rules, n_rows,
          i, frame, data_dict, returned, draws, seed, run, skip, first>>

\* ------------------------------------------------------------- strings

Chars(s) == [j \in 1..Len(s) |-> SubSeq(s, j, j)]

Range(f) == {f[x] : x \in DOMAIN f}

\* The first index of character c in s, 0 when absent (str.find).
RECURSIVE Find(_, _, _)
Find(s, c, from) ==
    IF from > Len(s) THEN 0
    ELSE IF s[from] = c THEN from
    ELSE Find(s, c, from + 1)

\* str.split(sep) for a one-character sep: count(sep) + 1 pieces, empty ones kept.
RECURSIVE Split(_, _)
Split(s, sep) ==
    LET k == Find(s, sep, 1)
    IN  IF k = 0 THEN <<s>>
        ELSE <<SubSeq(s, 1, k - 1)>> \o Split(SubSeq(s, k + 1, Len(s)), sep)

\* str.split(sep, 1): at most one split, at the first sep.
SplitFirst(s, sep) ==
    LET k == Find(s, sep, 1)
    IN  IF k = 0 THEN <<s>>
        ELSE <<SubSeq(s, 1, k - 1), SubSeq(s, k + 1, Len(s))>>

RECURSIVE LStrip(_)
LStrip(s) == IF s # <<>> /\ Head(s) = " " THEN LStrip(Tail(s)) ELSE s

RECURSIVE RStrip(_)
RStrip(s) ==
    IF s # <<>> /\ s[Len(s)] = " " THEN RStrip(SubSeq(s, 1, Len(s) - 1)) ELSE s

\* Mutant: nothing is stripped.
StripNothing(s) == s

\* str.strip()
Strip(s) == RStrip(LStrip(s))

\* ---------------------------------------------------------------- dict

Keys(d) == {d[j].k : j \in DOMAIN d}

\* d.get(key, default)
Get(d, key, default) ==
    IF key \in Keys(d)
    THEN d[CHOOSE j \in DOMAIN d : d[j].k = key].v
    ELSE default

\* d[key] = value: an existing key keeps its place and takes the new value.
DictSet(d, key, value) ==
    IF key \in Keys(d)
    THEN [j \in DOMAIN d |-> IF d[j].k = key THEN [k |-> key, v |-> value] ELSE d[j]]
    ELSE Append(d, [k |-> key, v |-> value])

\* ------------------------------------------------------ rule_parser.py

StrRule(s) == [tag |-> "str", s |-> s]
NoneRule == [tag |-> "None", s |-> <<>>]
NaNRule == [tag |-> "float", s |-> <<>>]

\* Mutant: the test for a ':' is forgotten.
HasColonAlways(p) == TRUE

\* if ':' in p
HasColon(p) == Find(p, ":", 1) # 0

\* The loop of parse_rule over the stripped segments. The unpacking
\* key, value = p.split(':', 1) raises unless the split gives two pieces.
RECURSIVE ParseParts(_, _)
ParseParts(parts, acc) ==
    IF parts = <<>> THEN [raised |-> FALSE, d |-> acc]
    ELSE LET p == Head(parts)
             kv == SplitFirst(p, ":")
         IN  IF HasColon(p)
             THEN IF Len(kv) # 2 THEN [raised |-> TRUE, d |-> acc]
                  ELSE ParseParts(Tail(parts), DictSet(acc, Strip(kv[1]), Strip(kv[2])))
             ELSE ParseParts(Tail(parts), acc)

\* if not rule or not isinstance(rule, str): return {}
NoRule(r) == r.tag # "str" \/ r.s = <<>>

\* The call parse_rule(r): [raised, d], d the dict returned.
ParseCall(r) ==
    IF NoRule(r) THEN [raised |-> FALSE, d |-> <<>>]
    ELSE LET raw == Split(r.s, ";")
             parts == [j \in DOMAIN raw |-> Strip(raw[j])]
         IN  ParseParts(parts, <<>>)

parse_rule(r) == ParseCall(r).d

kType == Chars("type")
kRange == Chars("range")
kPattern == Chars("pattern")
kValues == Chars("values")
kStart == Chars("start")
kEnd == Chars("end")

MsgNoType == "Rule must specify 'type' parameter"
MsgMissing == "Type is missing required parameters"

\* Mutant: a date needs its start only.
RequiredLax(data_type) ==
    IF data_type \in {Chars("integer"), Chars("decimal")} THEN {kRange}
    ELSE IF data_type = Chars("string") THEN {kPattern}
    ELSE IF data_type = Chars("choice") THEN {kValues}
    ELSE IF data_type \in {Chars("date"), Chars("datetime")} THEN {kStart}
    ELSE {}

\* The validations table of validate_rule: the keys a type requires.
Required(data_type) ==
    IF data_type \in {Chars("integer"), Chars("decimal")} THEN {kRange}
    ELSE IF data_type = Chars("string") THEN {kPattern}
    ELSE IF data_type = Chars("choice") THEN {kValues}
    ELSE IF data_type \in {Chars("date"), Chars("datetime")} THEN {kStart, kEnd}
    ELSE {}

validate_rule(p) ==
    IF kType \notin Keys(p) \/ Get(p, kType, <<>>) = <<>>
    THEN [ok |-> FALSE, msg |-> MsgNoType]
    ELSE IF ~(Required(Get(p, kType, <<>>)) \subseteq Keys(p))
    THEN [ok |-> FALSE, msg |-> MsgMissing]
    ELSE [ok |-> TRUE, msg |-> ""]

\* ------------------------------------------------------- generators.py

IntVal(v) == [t |-> "int", i |-> v, s |-> <<>>]
StrVal(s) == [t |-> "str", i |-> 0, s |-> s]
BoolVal(b) == [t |-> "bool", i |-> IF b THEN 1 ELSE 0, s |-> <<>>]
\* Some float of random.uniform(min_val, max_val), rounded.
FloatVal == [t |-> "float", i |-> 0, s |-> <<>>]
\* Some string of the Faker provider.
FakeVal(what) == StrVal(Chars(what))
EmptyStr == StrVal(<<>>)

\* [""] * n
Empties(n) == [j \in 1..n |-> EmptyStr]

Digits == Chars("0123456789")
UpperLetters == Chars("ABCDEFGHIJKLMNOPQRSTUVWXYZ")
LowerLetters == Chars("abcdefghijklmnopqrstuvwxyz")

IndexOf(seq, c) == CHOOSE j \in DOMAIN seq : seq[j] = c

\* str.lower()
Lower(s) ==
    [j \in DOMAIN s |->
        IF s[j] \in Range(UpperLetters)
        THEN LowerLetters[IndexOf(UpperLetters, s[j])]
        ELSE s[j]]

RECURSIVE DigitsValue(_, _)
DigitsValue(s, acc) ==
    IF s = <<>> THEN acc
    ELSE DigitsValue(Tail(s), 10 * acc + (IndexOf(Digits, Head(s)) - 1))

\* int(s): surrounding blanks and one sign are accepted, then decimal
\* digits; anything else is a ValueError.
Unsigned(s) ==
    IF Strip(s) # <<>> /\ Head(Strip(s)) \in {"+", "-"} THEN Tail(Strip(s)) ELSE Strip(s)
IsInt(s) == Unsigned(s) # <<>> /\ Range(Unsigned(s)) \subseteq Range(Digits)
IntOf(s) ==
    IF Head(Strip(s)) = "-" THEN 0 - DigitsValue(Unsigned(s), 0)
    ELSE DigitsValue(Unsigned(s), 0)

\* float(s) of such a piece: digits with at most one ".", at least one digit.
IsFloat(s) ==
    LET u == Unsigned(s)
        d == SelectSeq(u, LAMBDA c : c # ".")
    IN  /\ d # <<>>
        /\ Range(d) \subseteq Range(Digits)
        /\ Len(u) - Len(d) <= 1

\* params.get("unique", "false").lower() == "true"
IsUnique(p) == Lower(Get(p, Chars("unique"), Chars("false"))) = Chars("true")

\* The characters one pattern character expands to (random_from_pattern).
CharDomain(c) ==
    IF c = "#" THEN Range(Digits)
    ELSE IF c = "@" THEN Range(UpperLetters)
    ELSE IF c = "?" THEN Range(LowerLetters)
    ELSE IF c = "*" THEN Range(Digits) \cup Range(UpperLetters) \cup Range(LowerLetters)
    ELSE {c}

\* The calls of the module random one pattern character costs.
CharDraws(c) ==
    IF c \in {"#", "@", "?"} THEN 1 ELSE IF c = "*" THEN 4 ELSE 0

\* Every string random_from_pattern(pattern) can return.
RECURSIVE random_from_pattern(_)
random_from_pattern(pattern) ==
    IF pattern = <<>> THEN {<<>>}
    ELSE {<<c>> \o rest : c \in CharDomain(Head(pattern)),
                          rest \in random_from_pattern(Tail(pattern))}

RECURSIVE PatternDraws(_)
PatternDraws(pattern) ==
    IF pattern = <<>> THEN 0
    ELSE CharDraws(Head(pattern)) + PatternDraws(Tail(pattern))

\* format_phone of generate_phone: only "#" is replaced.
RECURSIVE format_phone(_)
format_phone(fmt) ==
    IF fmt = <<>> THEN {<<>>}
    ELSE {<<c>> \o rest : c \in (IF Head(fmt) = "#" THEN Range(Digits) ELSE {Head(fmt)}),
                          rest \in format_phone(Tail(fmt))}

PhoneDraws(fmt) == Len(SelectSeq(fmt, LAMBDA c : c = "#"))

\* The local variables of a strategy call. domain: the values one draw can
\* give; cost: the calls of the module random one value takes; fails: the
\* provider may raise on a draw.
NoFrame ==
    [fn |-> "", domain |-> {}, cost |-> 0, fails |-> FALSE, vals |-> {},
     data |-> <<>>, attempts |-> 0, max_attempts |-> 0, draws0 |-> 0]

NewFrame(fn, domain, cost) ==
    [NoFrame EXCEPT !.fn = fn, !.domain = domain, !.cost = cost, !.draws0 = draws]

\* What the statements of a strategy before its loop come to: an exception,
\* or the loop to run with its local variables.
Raised(fn) == [raised |-> TRUE, next |-> "except", frame |-> NewFrame(fn, {}, 0)]
Running(next, f) == [raised |-> FALSE, next |-> next, frame |-> f]

\* min, max = map(int, text.split("-"))
IsIntRange(text) ==
    LET pieces == Split(text, "-")
    IN  Len(pieces) = 2 /\ IsInt(pieces[1]) /\ IsInt(pieces[2])

generate_integer(p, n) ==
    LET text == Get(p, kRange, Chars("0-100"))
        pieces == Split(text, "-")
    IN  IF ~IsIntRange(text) THEN Raised("integer")
        ELSE LET min_val == IntOf(pieces[1])
                 max_val == IntOf(pieces[2])
                 f == NewFrame("integer", {IntVal(v) : v \in min_val..max_val}, 1)
             IN  IF IsUnique(p)
                 THEN Running("integer_unique", [f EXCEPT !.max_attempts = n * 10])
                 ELSE Running("comprehension", f)

generate_decimal(p, n) ==
    LET pieces == Split(Get(p, kRange, Chars("0.0-100.0")), "-")
    IN  IF Len(pieces) # 2 \/ ~IsFloat(pieces[1]) \/ ~IsFloat(pieces[2])
           \/ ~IsInt(Get(p, Chars("precision"), Chars("2")))
        THEN Raised("decimal")
        ELSE Running("comprehension", NewFrame("decimal", {FloatVal}, 1))

generate_string(p, n) ==
    LET pattern == Get(p, kPattern, Chars("####"))
        f == NewFrame("string", {StrVal(c) : c \in random_from_pattern(pattern)},
                      PatternDraws(pattern))
    IN  IF IsUnique(p)
        THEN Running("string_unique", [f EXCEPT !.max_attempts = n * 10])
        ELSE Running("comprehension", f)

\* Mutant: the pieces of the values list are not stripped.
generate_choice_untrimmed(p, n) ==
    LET choices == Split(Get(p, kValues, <<>>), ",")
    IN  IF choices = <<>> \/ choices = << <<>> >> THEN Raised("choice")
        ELSE Running("comprehension",
                     NewFrame("choice", {StrVal(c) : c \in Range(choices)}, 1))

generate_choice(p, n) ==
    LET raw == Split(Get(p, kValues, <<>>), ",")
        choices == [j \in DOMAIN raw |-> Strip(raw[j])]
    IN  IF choices = <<>> \/ choices = << <<>> >> THEN Raised("choice")
        ELSE Running("comprehension",
                     NewFrame("choice", {StrVal(c) : c \in Range(choices)}, 1))

generate_boolean(p, n) ==
    Running("comprehension", NewFrame("boolean", {BoolVal(TRUE), BoolVal(FALSE)}, 1))

\* random.randint(word_min, word_max) raises on an empty range.
generate_text(p, n) ==
    LET text == Get(p, Chars("words"), Chars("5-10"))
        pieces == Split(text, "-")
    IN  IF ~IsIntRange(text) THEN Raised("text")
        ELSE Running("comprehension",
                     NewFrame("text",
                              IF IntOf(pieces[1]) <= IntOf(pieces[2])
                              THEN {FakeVal("sentence")} ELSE {}, 1))

generate_first_name(p, n) ==
    Running("comprehension", NewFrame("first_name", {FakeVal("first_name")}, 0))

generate_last_name(p, n) ==
    Running("comprehension", NewFrame("last_name", {FakeVal("last_name")}, 0))

generate_email(p, n) ==
    Running("comprehension", NewFrame("email", {FakeVal("first.last@domain")}, 0))

generate_phone(p, n) ==
    LET fmt == Get(p, Chars("format"), Chars("###-###-####"))
    IN  Running("comprehension",
                NewFrame("phone", {StrVal(c) : c \in format_phone(fmt)}, PhoneDraws(fmt)))

\* pd.to_datetime(text) of an ISO date, yyyy-mm-dd; any other text raises.
IsDate(text) ==
    /\ Len(text) = 10
    /\ \A j \in 1..10 : IF j \in {5, 8} THEN text[j] = "-" ELSE text[j] \in Range(Digits)

\* The provider's date_between may itself raise (a start after the end).
generate_date(p, n) ==
    IF ~IsDate(Get(p, kStart, Chars("2000-01-01"))) \/ ~IsDate(Get(p, kEnd, Chars("2020-12-31")))
    THEN Raised("date")
    ELSE Running("comprehension",
                 [NewFrame("date", {FakeVal("date")}, 0) EXCEPT !.fails = TRUE])

generate_datetime(p, n) ==
    IF ~IsDate(Get(p, kStart, Chars("2020-01-01"))) \/ ~IsDate(Get(p, kEnd, Chars("2024-12-31")))
    THEN Raised("datetime")
    ELSE Running("comprehension",
                 [NewFrame("datetime", {FakeVal("datetime")}, 0) EXCEPT !.fails = TRUE])

generate_address(p, n) ==
    Running("comprehension", NewFrame("address", {FakeVal("address")}, 0))

generate_postal_code(p, n) ==
    Running("comprehension", NewFrame("postal_code", {FakeVal("postcode")}, 0))

\* --------------------------------------------------- data_generator.py

\* The keys of TestDataGenerator.TYPE_GENERATORS.
TYPE_GENERATORS ==
    {Chars("integer"), Chars("decimal"), Chars("string"), Chars("first_name"),
     Chars("last_name"), Chars("email"), Chars("phone"), Chars("date"),
     Chars("datetime"), Chars("boolean"), Chars("choice"), Chars("address"),
     Chars("postal_code"), Chars("text")}

\* generator = self.TYPE_GENERATORS[data_type]; generator(params, self.n_rows),
\* up to the strategy's loop.
Generator(data_type, p, n) ==
    CASE data_type = Chars("integer") -> generate_integer(p, n)
      [] data_type = Chars("decimal") -> generate_decimal(p, n)
      [] data_type = Chars("string") -> generate_string(p, n)
      [] data_type = Chars("first_name") -> generate_first_name(p, n)
      [] data_type = Chars("last_name") -> generate_last_name(p, n)
      [] data_type = Chars("email") -> generate_email(p, n)
      [] data_type = Chars("phone") -> generate_phone(p, n)
      [] data_type = Chars("date") -> generate_date(p, n)
      [] data_type = Chars("datetime") -> generate_datetime(p, n)
      [] data_type = Chars("boolean") -> generate_boolean(p, n)
      [] data_type = Chars("choice") -> generate_choice(p, n)
      [] data_type = Chars("address") -> generate_address(p, n)
      [] data_type = Chars("postal_code") -> generate_postal_code(p, n)
      [] data_type = Chars("text") -> generate_text(p, n)

parseVars == <<rule, params, is_valid, error_msg, reparsed>>
templateVars == <<columns, rules, n_rows, seed, skip>>
twinVars == <<run, first>>

\* The seeded module random: the value at a position of its stream.
RawAt(pos) == seed[(pos % Len(seed)) + 1]

RECURSIVE Mix(_, _)
Mix(pos, cost) ==
    IF cost = 0 THEN 0 ELSE RawAt(pos) * cost + Mix(pos + 1, cost - 1)

RECURSIVE Nth(_, _)
Nth(S, k) ==
    LET x == CHOOSE y \in S : TRUE
    IN  IF k = 0 THEN x ELSE Nth(S \ {x}, k - 1)

\* random.randint / random.choice / random_from_pattern gave v: any value of
\* the domain, and for a seeded stream the one the stream decides.
Drawn(v) ==
    IF seed = <<>> THEN TRUE
    ELSE v = Nth(frame.domain, Mix(draws, frame.cost) % Cardinality(frame.domain))

\* generate_column_data returns result; generate stores it and goes on.
Return(result, raised, fn, drawn) ==
    /\ data_dict' = DictSet(data_dict, columns[i], result)
    /\ returned' = Append(returned,
            [name |-> columns[i], result |-> result, raised |-> raised,
             fn |-> fn, drawn |-> drawn])
    /\ i' = i + 1
    /\ pc' = "generate"
    /\ frame' = NoFrame
    /\ UNCHANGED <<parseVars, templateVars, twinVars, draws>>

\* Mutant: the handler returns what the strategy had collected.
ExceptKeepsData(fn, drawn) == Return(frame.data, TRUE, fn, drawn)

\* Mutant: there is no handler, the exception leaves generate.
ExceptEscapes(fn, drawn) ==
    /\ pc' = "aborted"
    /\ UNCHANGED <<parseVars, templateVars, twinVars, i, frame, data_dict, returned, draws>>

\* except Exception as e: ... return [""] * self.n_rows
Except(fn, drawn) == Return(Empties(n_rows), TRUE, fn, drawn)

\* if not is_valid: ... return [""] * self.n_rows
GenerateInvalid ==
    /\ pc = "generate"
    /\ i <= Len(columns)
    /\ ~validate_rule(parse_rule(rules[i])).ok
    /\ Return(Empties(n_rows), FALSE, "", 0)

\* Mutant: an unregistered type costs a draw of the module random.
GenerateUnknownDraws ==
    /\ pc = "generate"
    /\ i <= Len(columns)
    /\ validate_rule(parse_rule(rules[i])).ok
    /\ Get(parse_rule(rules[i]), kType, <<>>) \notin TYPE_GENERATORS
    /\ data_dict' = DictSet(data_dict, columns[i], Empties(n_rows))
    /\ returned' = Append(returned,
            [name |-> columns[i], result |-> Empties(n_rows), raised |-> FALSE,
             fn |-> "", drawn |-> 0])
    /\ i' = i + 1
    /\ draws' = draws + 1
    /\ UNCHANGED <<parseVars, templateVars, twinVars, pc, frame>>

\* if data_type not in self.TYPE_GENERATORS: ... return [""] * self.n_rows
GenerateUnknown ==
    /\ pc = "generate"
    /\ i <= Len(columns)
    /\ validate_rule(parse_rule(rules[i])).ok
    /\ Get(parse_rule(rules[i]), kType, <<>>) \notin TYPE_GENERATORS
    /\ Return(Empties(n_rows), FALSE, "", 0)

\* The call of the strategy, up to its loop.
CallGenerator ==
    /\ pc = "generate"
    /\ i <= Len(columns)
    /\ LET p == parse_rule(rules[i])
           data_type == Get(p, kType, <<>>)
       IN  /\ validate_rule(p).ok
           /\ data_type \in TYPE_GENERATORS
           /\ LET g == Generator(data_type, p, n_rows)
              IN  IF g.raised
                  THEN Except(g.frame.fn, 0)
                  ELSE /\ pc' = g.next
                       /\ frame' = g.frame
                       /\ UNCHANGED <<parseVars, templateVars, twinVars, i,
                                      data_dict, returned, draws>>

\* Mutant: the value drawn is kept whether it is new or not.
UniqueTurnNoCheck ==
    /\ Len(frame.data) < n_rows
    /\ frame.attempts < frame.max_attempts
    /\ IF frame.domain = {}
       THEN Except(frame.fn, draws - frame.draws0)
       ELSE /\ \E v \in frame.domain :
                /\ Drawn(v)
                /\ frame' = [frame EXCEPT
                       !.vals = @ \cup {v},
                       !.data = Append(@, v),
                       !.attempts = @ + 1]
            /\ draws' = draws + frame.cost
            /\ UNCHANGED <<parseVars, templateVars, twinVars, i, pc, data_dict, returned>>

\* Mutant: the loop allows one turn more (attempts <= max_attempts).
UniqueTurnOneMore ==
    /\ Len(frame.data) < n_rows
    /\ frame.attempts <= frame.max_attempts
    /\ IF frame.domain = {}
       THEN Except(frame.fn, draws - frame.draws0)
       ELSE /\ \E v \in frame.domain :
                /\ Drawn(v)
                /\ frame' = [frame EXCEPT
                       !.vals = @ \cup {v},
                       !.data = IF v \in frame.vals THEN @ ELSE Append(@, v),
                       !.attempts = @ + 1]
            /\ draws' = draws + frame.cost
            /\ UNCHANGED <<parseVars, templateVars, twinVars, i, pc, data_dict, returned>>

\* One turn of a unique loop: draw, keep the value if it is new, count.
UniqueTurn ==
    /\ Len(frame.data) < n_rows
    /\ frame.attempts < frame.max_attempts
    /\ IF frame.domain = {}
       THEN Except(frame.fn, draws - frame.draws0)
       ELSE /\ \E v \in frame.domain :
                /\ Drawn(v)
                /\ frame' = [frame EXCEPT
                       !.vals = @ \cup {v},
                       !.data = IF v \in frame.vals THEN @ ELSE Append(@, v),
                       !.attempts = @ + 1]
            /\ draws' = draws + frame.cost
            /\ UNCHANGED <<parseVars, templateVars, twinVars, i, pc, data_dict, returned>>

\* Mutant: a shortfall is not raised, the values collected are returned.
UniqueEndNoRaise ==
    /\ ~(Len(frame.data) < n_rows /\ frame.attempts < frame.max_attempts)
    /\ Return(frame.data, FALSE, frame.fn, draws - frame.draws0)

\* After a unique loop: raise on a shortfall, else return data.
UniqueEnd ==
    /\ ~(Len(frame.data) < n_rows /\ frame.attempts < frame.max_attempts)
    /\ IF Len(frame.data) < n_rows
       THEN Except(frame.fn, draws - frame.draws0)
       ELSE Return(frame.data, FALSE, frame.fn, draws - frame.draws0)

IntegerUniqueStep == pc = "integer_unique" /\ UniqueTurn
IntegerUniqueEnd == pc = "integer_unique" /\ UniqueEnd
StringUniqueStep == pc = "string_unique" /\ UniqueTurn
StringUniqueEnd == pc = "string_unique" /\ UniqueEnd

\* One element of a strategy's list comprehension over range(n).
ComprehensionStep ==
    /\ pc = "comprehension"
    /\ Len(frame.data) < n_rows
    /\ frame.domain # {}
    /\ \E v \in frame.domain :
         /\ Drawn(v)
         /\ frame' = [frame EXCEPT !.data = Append(@, v)]
    /\ draws' = draws + frame.cost
    /\ UNCHANGED <<parseVars, templateVars, twinVars, i, pc, data_dict, returned>>

\* An element whose draw raises: an empty range, or the provider's refusal.
ComprehensionRaise ==
    /\ pc = "comprehension"
    /\ Len(frame.data) < n_rows
    /\ frame.domain = {} \/ frame.fails
    /\ Except(frame.fn, draws - frame.draws0)

ComprehensionEnd ==
    /\ pc = "comprehension"
    /\ Len(frame.data) = n_rows
    /\ Return(frame.data, FALSE, frame.fn, draws - frame.draws0)

\* return pd.DataFrame(data_dict)
GenerateEnd ==
    /\ pc = "generate"
    /\ i > Len(columns)
    /\ pc' = "done"
    /\ UNCHANGED <<parseVars, templateVars, twinVars, i, frame, data_dict, returned, draws>>

\* ------------------------------------------------------------ templates

MaxN == 4
MaxStrN == 2

Col(name, text) == [name |-> name, rule |-> StrRule(Chars(text))]

\* Rules that fail validation or name no registered type, among them an
\* empty cell (NaN) and a missing one (None).
BadCols(name) ==
    {Col(name, "type:unicorn"), Col(name, "type:integer"), Col(name, "unique:true"),
     Col(name, "type:"), Col(name, "junk"), Col(name, ""), Col(name, "type:choice"),
     Col(name, "type:date; start:2020-01-01"),
     [name |-> name, rule |-> NoneRule], [name |-> name, rule |-> NaNRule]}

\* Rules whose strategy raises, always or for some draws.
RaisingCols(name) ==
    {Col(name, "type:integer; range:3-1"), Col(name, "type:integer; range:3-1; unique:true"),
     Col(name, "type:integer; range:a-b"), Col(name, "type:integer; range:-5-5"),
     Col(name, "type:integer; range:1-3; unique:true"),
     Col(name, "type:choice; values:"), Col(name, "type:decimal; range:x-1"),
     Col(name, "type:decimal; range:1-2; precision:two"),
     Col(name, "type:text; words:3-2"), Col(name, "type:text; words:few"),
     Col(name, "type:date; start:soon; end:later"),
     Col(name, "type:date; start:2020-01-01; end:2020-12-31"),
     Col(name, "type:datetime; start:2020-01-01; end:2019-01-01")}

GoodCols(name) ==
    {Col(name, "type:integer; range:1-3"), Col(name, "type:integer; range:5-5"),
     Col(name, "type:integer; range:1-3; unique:TRUE"),
     Col(name, "type : integer ;range: 1 - 2 ; unique:true"),
     Col(name, "type:integer; range:1-3; range:2-2"),
     Col(name, "type:choice; values:a, b, c"), Col(name, "type:choice; values:,"),
     Col(name, "type:boolean"), Col(name, "type:decimal; range:0.5-1.5; precision:1"),
     Col(name, "type:first_name"), Col(name, "type:last_name"), Col(name, "type:email"),
     Col(name, "type:address"), Col(name, "type:postal_code; country:CA"),
     Col(name, "type:text; words:2-3")}

\* Strategies whose values are strings built from a pattern.
PatternCols(name) ==
    {Col(name, "type:string; pattern:#; unique:true"),
     Col(name, "type:string; pattern:k-; unique:true"),
     Col(name, "type:string; pattern:@"), Col(name, "type:string; pattern:?"),
     Col(name, "type:string; pattern:*"), Col(name, "type:phone; format:#")}

\* The templates of up to MaxN rows.
Templates ==
    {<<c>> : c \in BadCols("A") \cup RaisingCols("A") \cup GoodCols("A")}
    \cup {<<c, d>> : c \in BadCols("A") \cup RaisingCols("A"),
                    d \in {Col("B", "type:integer; range:1-3"),
                           Col("B", "type:choice; values:a, b, c")}}
    \cup {<<Col("A", "type:integer; range:1-2"), c, Col("C", "type:boolean")>> :
            c \in {Col("B", "type:unicorn"), Col("B", "type:choice; values:"),
                   Col("A", "type:integer; range:3-1")}}

\* The templates of up to MaxStrN rows.
PatternTemplates ==
    {<<c>> : c \in PatternCols("A")}
    \cup {<<Col("A", "type:string; pattern:k-; unique:true"),
            Col("B", "type:string; pattern:#-")>>}

Names(t) == [j \in DOMAIN t |-> t[j].name]
Rules(t) == [j \in DOMAIN t |-> t[j].rule]

\* The state after load_template, about to enter generate's loop.
Loaded(t, n) ==
    /\ columns = Names(t)
    /\ rules = Rules(t)
    /\ n_rows = n
    /\ i = 1
    /\ pc = "generate"
    /\ frame = NoFrame
    /\ data_dict = <<>>
    /\ returned = <<>>
    /\ draws = 0
    /\ rule = NoneRule
    /\ params = <<>>
    /\ is_valid = FALSE
    /\ error_msg = ""
    /\ reparsed = <<>>
    /\ run = 1
    /\ first = <<>>

Init ==
    /\ \/ \E t \in Templates, n \in 0..MaxN : Loaded(t, n)
       \/ \E t \in PatternTemplates, n \in 0..MaxStrN : Loaded(t, n)
    /\ seed = <<>>
    /\ skip = 0

\* ----------------------------------------------- the parser on its own

MaxRuleLen == 6

Alphabet == {"a", ":", ";", " "}

BoundedTexts == UNION {[1..k -> Alphabet] : k \in 0..MaxRuleLen}

RECURSIVE Join(_, _)
Join(pieces, sep) ==
    IF pieces = <<>> THEN <<>>
    ELSE IF Len(pieces) = 1 THEN pieces[1]
    ELSE pieces[1] \o sep \o Join(Tail(pieces), sep)

\* A dict written back in the grammar: key:value; key:value; ...
Format(d) == Join([j \in DOMAIN d |-> d[j].k \o <<":">> \o d[j].v], Chars("; "))

TypeTexts ==
    {"integer", "decimal", "string", "choice", "date", "datetime", "boolean",
     "email", "phone", "text", "first_name", "last_name", "address",
     "postal_code", "unicorn", "Integer", ""}

Companions ==
    <<"range:1-3", "pattern:#", "values:a, b", "start:2020-01-01", "end:2020-12-31">>

\* type:<t> followed by the companions chosen; and the same without a type.
TypedTexts ==
    {Join(<<Chars("type:" \o t)>> \o [j \in 1..Len(pick) |-> Chars(pick[j])], Chars("; ")) :
        t \in TypeTexts, pick \in {SelectSeq(Companions, LAMBDA c : c \in K) :
                                      K \in SUBSET Range(Companions)}}
    \cup {Join([j \in 1..Len(pick) |-> Chars(pick[j])], Chars(";")) :
            pick \in {SelectSeq(Companions, LAMBDA c : c \in K) :
                         K \in SUBSET Range(Companions)}}

ExampleTexts ==
    {Chars("type:integer; range:1000-9999; unique:true"), Chars("a:1; b"),
     Chars("a:1;a:2 ; b : x:y ;; :"), Chars("url: http://a ;k:v;k:")}

ParseInputs ==
    {StrRule(t) : t \in BoundedTexts \cup TypedTexts \cup ExampleTexts}
    \cup {NoneRule, NaNRule}

ParseInit ==
    /\ rule \in ParseInputs
    /\ pc = "parse"
    /\ params = <<>>
    /\ is_valid = FALSE
    /\ error_msg = ""
    /\ reparsed = <<>>
    /\ columns = <<>>
    /\ rules = <<>>
    /\ n_rows = 0
    /\ i = 1
    /\ frame = NoFrame
    /\ data_dict = <<>>
    /\ returned = <<>>
    /\ draws = 0
    /\ seed = <<>>
    /\ run = 1
    /\ skip = 0
    /\ first = <<>>

engineVars == <<columns, rules, n_rows, i, frame, data_dict, returned, draws,
                seed, run, skip, first>>

\* params = parse_rule(rule)
ParseRule ==
    /\ pc = "parse"
    /\ params' = parse_rule(rule)
    /\ pc' = IF ParseCall(rule).raised THEN "raised" ELSE "validate"
    /\ UNCHANGED <<rule, is_valid, error_msg, reparsed, engineVars>>

\* is_valid, error_msg = validate_rule(params)
ValidateRule ==
    /\ pc = "validate"
    /\ is_valid' = validate_rule(params).ok
    /\ error_msg' = validate_rule(params).msg
    /\ pc' = "format"
    /\ UNCHANGED <<rule, params, reparsed, engineVars>>

\* The params written back in the grammar and parsed again.
FormatAndParse ==
    /\ pc = "format"
    /\ reparsed' = parse_rule(StrRule(Format(params)))
    /\ pc' = IF ParseCall(StrRule(Format(params))).raised THEN "raised" ELSE "reparsed"
    /\ UNCHANGED <<rule, params, is_valid, error_msg, engineVars>>

ParseNext == ParseRule \/ ValidateRule \/ FormatAndParse

ParseSpec == ParseInit /\ [][ParseNext]_vars

Next ==
    \/ GenerateInvalid
    \/ GenerateUnknown
    \/ CallGenerator
    \/ IntegerUniqueStep
    \/ IntegerUniqueEnd
    \/ StringUniqueStep
    \/ StringUniqueEnd
    \/ ComprehensionStep
    \/ ComprehensionRaise
    \/ ComprehensionEnd
    \/ GenerateEnd

Spec == Init /\ [][Next]_vars

\* The program is one thread: a loop that can take its next turn, or end,
\* does.
FairSpec ==
    /\ Spec
    /\ WF_vars(IntegerUniqueStep \/ IntegerUniqueEnd)
    /\ WF_vars(StringUniqueStep \/ StringUniqueEnd)

\* ------------------------------------- two runs from the same seed

SeedLen == 2
MaxTwinN == 2

\* A seed stands for the stream it starts: SeedLen raw values, repeated.
Seeds == [1..SeedLen -> 0..SeedLen]

TwinTemplates ==
    {<<Col("A", "type:integer; range:1-3"), b, Col("C", "type:choice; values:a, b, c")>> :
        b \in BadCols("B")}
    \cup {<<b, Col("B", "type:integer; range:1-3; unique:true"), Col("C", "type:boolean")>> :
            b \in BadCols("A")}
    \cup {<<Col("A", "type:string; pattern:#"), Col("B", "type:text; words:2-3"), b>> :
            b \in BadCols("C")}
    \cup {<<Col("A", "type:string; pattern:#; unique:true"), Col("B", "type:junk"),
            Col("C", "type:text; words:3-2"), Col("D", "type:integer; range:1-3")>>}
    \cup {<<Col("A", "type:unicorn"), Col("B", "type:integer"),
            Col("C", "type:integer; range:1-2; unique:true")>>}

\* The rule is one generate_column_data answers without calling a strategy.
IsBad(r) ==
    \/ ~validate_rule(parse_rule(r)).ok
    \/ Get(parse_rule(r), kType, <<>>) \notin TYPE_GENERATORS

TwinInit ==
    /\ \E t \in TwinTemplates, n \in 0..MaxTwinN : Loaded(t, n)
    /\ seed \in Seeds
    /\ skip \in {j \in DOMAIN rules : IsBad(rules[j])}

Without(seq, k) == [j \in 1..(Len(seq) - 1) |-> IF j < k THEN seq[j] ELSE seq[j + 1]]

\* generate() over the template without column skip, the module random
\* seeded as for the first run.
SecondRun ==
    /\ pc = "done"
    /\ run = 1
    /\ skip # 0
    /\ run' = 2
    /\ first' = returned
    /\ columns' = Without(columns, skip)
    /\ rules' = Without(rules, skip)
    /\ i' = 1
    /\ pc' = "generate"
    /\ data_dict' = <<>>
    /\ returned' = <<>>
    /\ draws' = 0
    /\ UNCHANGED <<parseVars, n_rows, seed, skip, frame>>

TwinNext == Next \/ SecondRun

TwinSpec == TwinInit /\ [][TwinNext]_vars

\* =============================================================== claims

Text(t) == StrRule(Chars(t))
Unique13 == Text("type:integer; range:1-3; unique:true")
ChoiceABC == Text("type:choice; values:a, b, c")

Values(result) == {result[j] : j \in DOMAIN result}

\* generate_column_data has just returned: the call, and the rule it was for.
AtReturn == pc = "generate" /\ returned # <<>>
Just == returned[Len(returned)]
JustRule == rules[Len(returned)]

\* C1: every sequence generate_column_data returns, and every column stored
\* in data_dict, has exactly n_rows values, whatever the rule and its outcome.
C1_LengthIsN ==
    /\ \A j \in DOMAIN returned : Len(returned[j].result) = n_rows
    /\ \A j \in DOMAIN data_dict : Len(data_dict[j].v) = n_rows

\* A unique column that ran out of attempts after drawing, then a column
\* that succeeded, of three rows each.
C1_Witness ==
    /\ pc = "done"
    /\ n_rows = 3
    /\ Len(returned) = 2
    /\ returned[1].raised /\ returned[1].drawn = 30
    /\ returned[2].fn = "integer" /\ ~returned[2].raised

\* Rules whose strategy raises whatever is drawn, for one row or more.
AlwaysRaises ==
    {Text("type:integer; range:3-1"), Text("type:integer; range:3-1; unique:true"),
     Text("type:integer; range:a-b"), Text("type:integer; range:-5-5"),
     Text("type:choice; values:"), Text("type:decimal; range:x-1"),
     Text("type:decimal; range:1-2; precision:two"), Text("type:text; words:3-2"),
     Text("type:text; words:few"), Text("type:date; start:soon; end:later")}

\* C2: no exception leaves generate_column_data: parsing does not raise, a
\* column whose strategy raised holds n_rows empty strings, the run is never
\* aborted, and generate goes on through every column in declared order.
C2_FailureIsolated ==
    /\ pc # "aborted"
    /\ Len(returned) = (IF pc = "done" THEN Len(columns) ELSE i - 1)
    /\ \A j \in DOMAIN returned : returned[j].name = columns[j]
    /\ pc = "generate" /\ i <= Len(columns) => ~ParseCall(rules[i]).raised
    /\ AtReturn =>
          (Just.raised \/ (JustRule \in AlwaysRaises /\ n_rows > 0)
              => Just.result = Empties(n_rows))

\* The second of three columns raised and the third was generated.
C2_Witness ==
    /\ pc = "done"
    /\ n_rows = 2
    /\ Len(returned) = 3
    /\ returned[2].raised /\ returned[2].fn = "choice"
    /\ returned[3].fn = "boolean" /\ returned[3].result # Empties(2)

SameOutcome(a, b) == a.name = b.name /\ a.result = b.result

IsPerm123(result) ==
    Len(result) = 3 /\ Values(result) = {IntVal(1), IntVal(2), IntVal(3)}

\* C4 as claimed: type:integer; range:1-3; unique:true with three rows always
\* gives a permutation of 1, 2, 3.
C4_AlwaysPermutation ==
    \A j \in DOMAIN returned :
        rules[j] = Unique13 /\ n_rows = 3 => IsPerm123(returned[j].result)

\* C4 amended: it gives a permutation of 1, 2, 3, or, when the 30 draws the
\* loop allows showed fewer than three distinct values, three empty strings.
C4_PermutationOrEmpty ==
    \A j \in DOMAIN returned :
        rules[j] = Unique13 /\ n_rows = 3 =>
            \/ IsPerm123(returned[j].result) /\ ~returned[j].raised
            \/ /\ returned[j].result = Empties(3)
               /\ returned[j].raised
               /\ returned[j].drawn = 30

C4_Witness ==
    /\ pc = "done"
    /\ n_rows = 3
    /\ rules = <<Unique13>>
    /\ returned[1].result = <<IntVal(2), IntVal(3), IntVal(1)>>
    /\ returned[1].drawn = 5

Distinct(result) == \A a, b \in DOMAIN result : a # b => result[a] # result[b]

UniqueColumn(r) ==
    /\ ~IsBad(r)
    /\ Get(parse_rule(r), kType, <<>>) \in {Chars("integer"), Chars("string")}
    /\ Lower(Get(parse_rule(r), Chars("unique"), Chars("false"))) = Chars("true")

\* The bounds a well-formed integer range states.
RangeLo(r) == IntOf(Split(Get(parse_rule(r), kRange, <<>>), "-")[1])
RangeHi(r) == IntOf(Split(Get(parse_rule(r), kRange, <<>>), "-")[2])

\* C5: a unique integer or string column is n_rows pairwise distinct values
\* (integers within the range) or n_rows empty strings, never a shorter or
\* repeating sequence; with more rows than the range has values it is
\* n_rows empty strings.
C5_UniqueOrEmpty ==
    AtReturn /\ Just.fn \in {"integer", "string"} /\ UniqueColumn(JustRule) =>
        /\ \/ Just.result = Empties(n_rows)
           \/ /\ Len(Just.result) = n_rows
              /\ Distinct(Just.result)
              /\ Just.fn = "integer" =>
                    \A v \in Values(Just.result) :
                        /\ v.t = "int"
                        /\ RangeLo(JustRule) <= v.i /\ v.i <= RangeHi(JustRule)
              /\ Just.fn = "string" => \A v \in Values(Just.result) : v.t = "str"
        /\ /\ Just.fn = "integer"
           /\ IsIntRange(Get(parse_rule(JustRule), kRange, <<>>))
           /\ n_rows > RangeHi(JustRule) - RangeLo(JustRule) + 1
           => Just.result = Empties(n_rows)
        /\ JustRule = Unique13 /\ n_rows >= 4 => Just.result = Empties(n_rows)

\* range:1-3 with four rows: 40 draws, then four empty strings.
C5_Witness ==
    /\ pc = "done"
    /\ n_rows = 4
    /\ rules = <<Unique13>>
    /\ returned[1].result = Empties(4)
    /\ returned[1].drawn = 40

\* The trimmed pieces of the values list of a choice rule.
Choices(r) ==
    LET raw == Split(Get(parse_rule(r), kValues, <<>>), ",")
    IN  {StrVal(Strip(raw[j])) : j \in DOMAIN raw}

\* C9: every value of a choice column is one of the trimmed pieces of its
\* values list (a, b or c for values:a, b, c), and a column whose list is
\* empty raised and holds n_rows empty strings.
C9_ChoiceIsMember ==
    AtReturn /\ Just.fn = "choice" =>
        /\ Len(Just.result) = n_rows
        /\ IF Get(parse_rule(JustRule), kValues, <<>>) = <<>>
           THEN Just.raised /\ Just.result = Empties(n_rows)
           ELSE ~Just.raised /\ Values(Just.result) \subseteq Choices(JustRule)
        /\ JustRule = ChoiceABC =>
              Values(Just.result) \subseteq
                  {StrVal(<<"a">>), StrVal(<<"b">>), StrVal(<<"c">>)}

C9_Witness ==
    /\ pc = "done"
    /\ rules = <<ChoiceABC>>
    /\ returned[1].result = <<StrVal(<<"c">>), StrVal(<<"a">>), StrVal(<<"b">>), StrVal(<<"a">>)>>

InUnique == pc \in {"integer_unique", "string_unique"}

\* C10: a unique loop takes a turn only while fewer than n_rows values are
\* collected and fewer than 10 * n_rows turns were taken, each turn draws one
\* candidate, so there are never more than 10 * n_rows of them, and the loop
\* is left.
C10_BoundedRetry ==
    /\ [](InUnique =>
            /\ frame.max_attempts = 10 * n_rows
            /\ frame.attempts <= 10 * n_rows
            /\ Len(frame.data) <= n_rows
            /\ draws - frame.draws0 = frame.attempts * frame.cost)
    /\ [][InUnique /\ InUnique' /\ frame' # frame =>
            /\ Len(frame.data) < n_rows
            /\ frame.attempts < 10 * n_rows
            /\ frame'.attempts = frame.attempts + 1]_vars
    /\ (InUnique ~> ~InUnique)

\* The loop stands at its cap: 40 turns for four rows.
C10_Witness ==
    /\ pc = "integer_unique"
    /\ n_rows = 4
    /\ frame.attempts = 40
    /\ Len(frame.data) = 3

\* The rule as text, for the statements about the parser.
Txt == rule.s
Parsed == pc \in {"validate", "format", "reparsed"}

\* A segment: a stretch from..to of Txt without ';', between two ';' or ends.
IsSegment(from, to) ==
    /\ \A j \in from..to : Txt[j] # ";"
    /\ from = 1 \/ Txt[from - 1] = ";"
    /\ to = Len(Txt) \/ Txt[to + 1] = ";"

Segments ==
    {g \in (1..(Len(Txt) + 1)) \X (0..Len(Txt)) : g[1] <= g[2] + 1 /\ IsSegment(g[1], g[2])}

Colons(g) == {j \in g[1]..g[2] : Txt[j] = ":"}
ColonSegments == {g \in Segments : Colons(g) # {}}
FirstColon(g) == CHOOSE j \in Colons(g) : \A k \in Colons(g) : j <= k

\* The stretch from..to of Txt without the blanks at its two ends.
Trimmed(from, to) ==
    LET inked == {j \in from..to : Txt[j] # " "}
    IN  IF inked = {} THEN <<>>
        ELSE SubSeq(Txt, CHOOSE j \in inked : \A k \in inked : j <= k,
                         CHOOSE j \in inked : \A k \in inked : j >= k)

KeyOf(g) == Trimmed(g[1], FirstColon(g) - 1)
ValueOf(g) == Trimmed(FirstColon(g) + 1, g[2])

\* C6: parse_rule does not raise; None, a non-string and "" give the empty
\* dict; otherwise the dict holds, for every segment with a ':', the trimmed
\* text before its first ':' as key, mapped to the trimmed text after it of
\* the last segment with that key, and nothing else.
C6_ParseByGrammar ==
    /\ pc # "raised"
    /\ Parsed =>
          /\ rule.tag # "str" \/ Len(Txt) = 0 => params = <<>>
          /\ rule.tag = "str" /\ Len(Txt) > 0 =>
                /\ Keys(params) = {KeyOf(g) : g \in ColonSegments}
                /\ Len(params) = Cardinality(Keys(params))
                /\ \A g \in ColonSegments :
                      (\A h \in ColonSegments : KeyOf(h) = KeyOf(g) => h[1] <= g[1])
                          => \E j \in DOMAIN params :
                                 params[j].k = KeyOf(g) /\ params[j].v = ValueOf(g)
          /\ rule = Text("a:1; b") => params = <<[k |-> <<"a">>, v |-> <<"1">>]>>
          /\ rule = Text("type:integer; range:1000-9999; unique:true") =>
                params = <<[k |-> Chars("type"), v |-> Chars("integer")],
                           [k |-> Chars("range"), v |-> Chars("1000-9999")],
                           [k |-> Chars("unique"), v |-> Chars("true")]>>

\* A rule with a repeated key, a value holding ':', a segment without ':',
\* an empty segment and an empty key.
C6_Witness ==
    /\ pc = "validate"
    /\ rule = Text("a:1;a:2 ; b : x:y ;; :")
    /\ params = <<[k |-> <<"a">>, v |-> <<"2">>],
                  [k |-> <<"b">>, v |-> Chars("x:y")],
                  [k |-> <<>>, v |-> <<>>]>>

\* C7: the dict of a rule, written as key:value; key:value; ... and parsed
\* again, is the same dict.
C7_RoundTrip ==
    /\ pc # "raised"
    /\ pc = "reparsed" => reparsed = params

C7_Witness ==
    /\ pc = "reparsed"
    /\ rule = Text("url: http://a ;k:v;k:")
    /\ Len(params) = 2
    /\ reparsed = <<[k |-> Chars("url"), v |-> Chars("http://a")],
                    [k |-> <<"k">>, v |-> <<>>]>>

Validated == pc \in {"format", "reparsed"}
Has(key) == \E j \in DOMAIN params : params[j].k = Chars(key)
TypeIn(types) == \E j \in DOMAIN params : params[j].k = Chars("type") /\ params[j].v \in types

\* A type that lacks a companion it requires.
LacksCompanion ==
    \/ TypeIn({Chars("integer"), Chars("decimal")}) /\ ~Has("range")
    \/ TypeIn({Chars("string")}) /\ ~Has("pattern")
    \/ TypeIn({Chars("choice")}) /\ ~Has("values")
    \/ TypeIn({Chars("date"), Chars("datetime")}) /\ ~(Has("start") /\ Has("end"))

\* C8 as claimed: validate_rule answers invalid exactly when the type key is
\* absent or the type lacks a companion it requires.
C8_InvalidExactly ==
    Validated => (~is_valid <=> (~Has("type") \/ LacksCompanion))

\* C8 amended: it answers invalid exactly when the type key is absent or its
\* value is empty (MissingType) or the type lacks a companion it requires
\* (MissingRequiredParam); every other rule, of whatever type, is valid.
C8_InvalidExactlyOrEmptyType ==
    Validated =>
        /\ ~is_valid <=> (~Has("type") \/ TypeIn({<<>>}) \/ LacksCompanion)
        /\ error_msg = (IF ~Has("type") \/ TypeIn({<<>>}) THEN MsgNoType
                        ELSE IF LacksCompanion THEN MsgMissing ELSE "")

\* A rule whose type is there and empty was found invalid.
C8_Witness ==
    /\ pc = "format"
    /\ rule = Text("type:; range:1-3")
    /\ ~is_valid
    /\ error_msg = MsgNoType

====
